---- MODULE Spec2Model ----
(***************************************************************************)
(* Binary-operation lookup table of the halo2 VM circuit:                  *)
(*   - generate_binop_table (vm_circuit/binop.rs), the row generator;      *)
(*   - BinaryOperationTable::load / UnaryOperationTable::load (table.rs);  *)
(*   - BinOpConfig / BinOpCircuit: lookup wiring, synthesis, verification; *)
(*   - the LookupTable capability (columns / annotations).                 *)
(* Four specifications share the variables below:                          *)
(*   SpecGen      one call of generate_binop_table(range)                  *)
(*   SpecLoad     one call of a table's load(rows)                         *)
(*   Spec         BinOpCircuit::new, one synthesize run, MockProver verify *)
(*   SpecAnnotate annotate_columns on a LookupTable implementation         *)
(***************************************************************************)
EXTENDS Integers, Sequences, FiniteSets, TLC

VARIABLES
    pc,               \* position of the running operation
    overflow_checks,  \* build profile: TRUE = arithmetic overflow panics, FALSE = it wraps
    range,            \* generate_binop_table: argument `range`
    r,                \* generate_binop_table: local `r`
    x,                \* generate_binop_table: outer loop variable
    all_cases,        \* generate_binop_table: local `all_cases`
    circuit,          \* BinOpCircuit { tag, lhs, rhs, res }
    fixed,            \* fixed columns of the constraint system: column -> cells
    advice,           \* advice columns of BinOpConfig: column -> cells
    log,              \* cell writes accepted by the layouter, in order
    refused,          \* number of cell writes the layouter refused (returned Err)
    result,           \* return value of the operation: "none", "Ok" or "Err"
    verify_ok,        \* outcome of MockProver::verify: "none", TRUE or FALSE
    precomputed,      \* load: argument `precomputed`
    table,            \* LookupTable implementation under annotation
    cs_annotations    \* ConstraintSystem: column -> annotation attached to it

vars == <<pc, overflow_checks, range, r, x, all_cases, circuit, fixed, advice,
          log, refused, result, verify_ok, precomputed, table, cs_annotations>>

genVars == <<range, r, x, all_cases>>
csVars == <<circuit, fixed, advice, log, refused, result, verify_ok, precomputed>>
annVars == <<table, cs_annotations>>

(***************************************************************************)
(* Bounds of the model.                                                    *)
(***************************************************************************)
MaxRange == 5      \* ranges 0..MaxRange are generated
MaxRows == 2       \* load(rows): rows of length 0..MaxRows
MaxFailAt == 8     \* the layouter may refuse the k-th write of a call, k in 0..MaxFailAt
MaxW == 3          \* column arrays [C; W] with W in 0..MaxW
FieldOrder == 65537 \* stand-in for the order of the field F; u8 values embed injectively

(***************************************************************************)
(* Program constants.                                                      *)
(***************************************************************************)
U8Modulus == 256   \* u8 cells of a row
U8Bits == 8
CircuitRange == 4  \* generate_binop_table(4) in load_binop_table
K == 20            \* MockProver::run(k, ..)

\* BinOpTag discriminants
ADD == 1
MUL == 2
SUB == 3
DIV == 4
MOD == 5
LT == 6
GT == 7
LE == 8
GE == 9
SHL == 10
SHR == 11
AND == 12
XOR == 13
OR == 14
EQ == 15

\* Variant of the iteration: the shift tags are left out
BinOpTagIter_NoShifts == <<1, 2, 3, 4, 5, 6, 7, 8, 9, 12, 13, 14, 15>>

\* BinOpTag::iter(): the variants in declaration order
BinOpTagIter == <<ADD, MUL, SUB, DIV, MOD, LT, GT, LE, GE, SHL, SHR, AND, XOR, OR, EQ>>

(***************************************************************************)
(* u8 arithmetic                                                           *)
(***************************************************************************)
Pow2(n) == 2 ^ n

RECURSIVE BitAnd(_, _)
BitAnd(a, b) ==
    IF a = 0 \/ b = 0 THEN 0
    ELSE (a % 2) * (b % 2) + 2 * BitAnd(a \div 2, b \div 2)

RECURSIVE BitXor(_, _)
BitXor(a, b) ==
    IF a = 0 /\ b = 0 THEN 0
    ELSE ((a + b) % 2) + 2 * BitXor(a \div 2, b \div 2)

RECURSIVE BitOr(_, _)
BitOr(a, b) ==
    IF a = 0 /\ b = 0 THEN 0
    ELSE (IF a % 2 = 1 \/ b % 2 = 1 THEN 1 ELSE 0) + 2 * BitOr(a \div 2, b \div 2)

BoolAsU8(b) == IF b THEN 1 ELSE 0

\* The value of a u8 `+` or `*` whose mathematical result is v: it panics
\* when it overflows under overflow checks, and wraps otherwise.
CheckedU8(v, checks) ==
    IF v < U8Modulus THEN [panic |-> FALSE, val |-> v]
    ELSE IF checks THEN [panic |-> TRUE, val |-> 0]
    ELSE [panic |-> FALSE, val |-> v % U8Modulus]

U8(v) == [panic |-> FALSE, val |-> v]

\* `1 << range` on u8
ShlOne(n, checks) ==
    IF n < U8Bits THEN [panic |-> FALSE, val |-> Pow2(n)]
    ELSE IF checks THEN [panic |-> TRUE, val |-> 0]
    ELSE [panic |-> FALSE, val |-> Pow2(n % U8Bits)]

(***************************************************************************)
(* generate_binop_table                                                    *)
(***************************************************************************)
\* Variant of the match: SUB wraps instead of saturating
MatchOp_WrappingSub(op, a, b, checks) ==
    IF op = 3 THEN [panic |-> FALSE, val |-> (a - b) % U8Modulus]
    ELSE IF op = 1 THEN CheckedU8(a + b, checks)
    ELSE IF op = 2 THEN CheckedU8(a * b, checks)
    ELSE IF op = 4 THEN U8(IF b # 0 THEN a \div b ELSE 0)
    ELSE IF op = 5 THEN U8(IF b # 0 THEN a % b ELSE 0)
    ELSE IF op = 6 THEN U8(BoolAsU8(a < b))
    ELSE IF op = 7 THEN U8(BoolAsU8(a > b))
    ELSE IF op = 8 THEN U8(BoolAsU8(a <= b))
    ELSE IF op = 9 THEN U8(BoolAsU8(a >= b))
    ELSE IF op = 12 THEN U8(BitAnd(a, b))
    ELSE IF op = 13 THEN U8(BitXor(a, b))
    ELSE IF op = 14 THEN U8(BitOr(a, b))
    ELSE IF op = 15 THEN U8(BoolAsU8(a = b))
    ELSE U8(0)

\* simple_record[3] = match op { .. }
MatchOp(op, a, b, checks) ==
    CASE op = ADD -> CheckedU8(a + b, checks)
      [] op = MUL -> CheckedU8(a * b, checks)
      [] op = SUB -> U8(IF a >= b THEN a - b ELSE 0)
      [] op = DIV -> U8(IF b # 0 THEN a \div b ELSE 0)
      [] op = LT -> U8(BoolAsU8(a < b))
      [] op = GT -> U8(BoolAsU8(a > b))
      [] op = LE -> U8(BoolAsU8(a <= b))
      [] op = GE -> U8(BoolAsU8(a >= b))
      [] op = AND -> U8(BitAnd(a, b))
      [] op = XOR -> U8(BitXor(a, b))
      [] op = OR -> U8(BitOr(a, b))
      [] op = EQ -> U8(BoolAsU8(a = b))
      [] op = MOD -> U8(IF b # 0 THEN a % b ELSE 0)
      [] OTHER -> U8(0)

\* for op in BinOpTag::iter() { .. all_cases.push(simple_record) }
RECURSIVE OpLoop(_, _, _, _, _)
OpLoop(k, a, b, st, checks) ==
    IF st.panic \/ k > Len(BinOpTagIter) THEN st
    ELSE LET op == BinOpTagIter[k]
             res == MatchOp(op, a, b, checks)
         IN IF res.panic
            THEN [st EXCEPT !.panic = TRUE]
            ELSE OpLoop(k + 1, a, b,
                        [st EXCEPT !.all_cases = Append(@, <<op, a, b, res.val>>)],
                        checks)

\* for y in 0..r { .. }
RECURSIVE YLoop(_, _, _, _, _)
YLoop(b, a, bound, st, checks) ==
    IF st.panic \/ b >= bound THEN st
    ELSE YLoop(b + 1, a, bound, OpLoop(1, a, b, st, checks), checks)

\* One iteration of `for x in 0..r`
OuterBody(a, bound, st, checks) == YLoop(0, a, bound, st, checks)

\* for x in 0..r { .. }
RECURSIVE XLoop(_, _, _, _)
XLoop(a, bound, st, checks) ==
    IF st.panic \/ a >= bound THEN st
    ELSE XLoop(a + 1, bound, OuterBody(a, bound, st, checks), checks)

\* The whole call: [panic |-> .., all_cases |-> the returned vector]
generate_binop_table(n, checks) ==
    LET sh == ShlOne(n, checks)
    IN IF sh.panic THEN [panic |-> TRUE, all_cases |-> <<>>]
       ELSE XLoop(0, sh.val, [panic |-> FALSE, all_cases |-> <<>>], checks)

(***************************************************************************)
(* Idle values of the variables a specification does not use               *)
(***************************************************************************)
NoCircuit == [tag |-> 0, lhs |-> 0, rhs |-> 0, res |-> 0]
\* A column is the vector of its cells up to the last one assigned: the
\* cell at offset i is cells[i + 1], Unassigned or a field element.
Unassigned == 0 - 1
EmptyColumn == <<>>
FixedColumns == {"tag", "lhs", "rhs", "res", "unary_tag", "unary_operand", "unary_res"}
AdviceColumns == {"tag", "lhs", "rhs", "res"}

GenIdle ==
    /\ range = 0
    /\ r = 0
    /\ x = 0
    /\ all_cases = <<>>

CsIdle ==
    /\ circuit = NoCircuit
    /\ fixed = [c \in FixedColumns |-> EmptyColumn]
    /\ advice = [c \in AdviceColumns |-> EmptyColumn]
    /\ log = <<>>
    /\ refused = 0
    /\ result = "none"
    /\ verify_ok = "none"
    /\ precomputed = <<>>

AnnIdle ==
    /\ table = [impl |-> "none", columns |-> <<>>]
    /\ cs_annotations = [c \in {} |-> ""]

(***************************************************************************)
(* SpecGen: one call of generate_binop_table(range), one step per          *)
(* iteration of the outer loop.                                            *)
(***************************************************************************)
GenInit ==
    /\ pc = "gen_call"
    /\ overflow_checks \in BOOLEAN
    /\ range \in 0..MaxRange
    /\ r = 0
    /\ x = 0
    /\ all_cases = <<>>
    /\ CsIdle
    /\ AnnIdle

\* let mut all_cases = vec![]; let r = 1 << range;
GenEnter ==
    /\ pc = "gen_call"
    /\ \E sh \in {ShlOne(range, overflow_checks)} :
          /\ pc' = IF sh.panic THEN "gen_panicked" ELSE "gen_loop"
          /\ r' = sh.val
    /\ x' = 0
    /\ all_cases' = <<>>
    /\ UNCHANGED <<overflow_checks, range, csVars, annVars>>

\* One iteration of `for x in 0..r`
GenOuterIter ==
    /\ pc = "gen_loop"
    /\ x < r
    /\ \E st \in {OuterBody(x, r, [panic |-> FALSE, all_cases |-> all_cases],
                            overflow_checks)} :
          /\ pc' = IF st.panic THEN "gen_panicked" ELSE "gen_loop"
          /\ all_cases' = st.all_cases
    /\ x' = x + 1
    /\ UNCHANGED <<overflow_checks, range, r, csVars, annVars>>

\* The loop is exhausted: `all_cases` is returned
GenReturn ==
    /\ pc = "gen_loop"
    /\ x >= r
    /\ pc' = "gen_returned"
    /\ UNCHANGED <<overflow_checks, genVars, csVars, annVars>>

GenNext == GenEnter \/ GenOuterIter \/ GenReturn

SpecGen == GenInit /\ [][GenNext]_vars

(***************************************************************************)
(* The layouter: cell writes of one call.  st is the running call:         *)
(*   fixed, advice  the columns; log  the accepted writes;                 *)
(*   n  writes attempted so far; failAt  the attempt the layouter refuses  *)
(*   (NoFail: none); err  an assignment error has been returned by `?`.    *)
(***************************************************************************)
NoFail == 0 - 1
FailChoices == (0..MaxFailAt) \cup {NoFail}

\* F::from(v: u64), F::from_u128(v as u128)
FieldFrom(v) == v % FieldOrder

\* The cells of a column after the cell at `offset` is set to val
CellWrite(cells, offset, val) ==
    IF offset = Len(cells) THEN Append(cells, val)
    ELSE IF offset < Len(cells) THEN [cells EXCEPT ![offset + 1] = val]
    ELSE cells \o [k \in 1..(offset - Len(cells)) |-> Unassigned] \o <<val>>

IsAssigned(cells, i) == i < Len(cells) /\ cells[i + 1] # Unassigned
AssignedOffsets(cells) == {i \in 0..(Len(cells) - 1) : cells[i + 1] # Unassigned}

CallState(f, a, l, failAt) ==
    [fixed |-> f, advice |-> a, log |-> l, refused |-> 0, n |-> 0,
     failAt |-> failAt, err |-> FALSE]

\* Variant of the write: the error of a refused write is dropped, not returned
assign_fixed_DropsError(st, col, offset, val) ==
    IF st.n = st.failAt
    THEN [st EXCEPT !.refused = @ + 1, !.n = @ + 1]
    ELSE [st EXCEPT !.fixed[col] = CellWrite(@, offset, val),
                    !.log = Append(@, [kind |-> "fixed", col |-> col,
                                       offset |-> offset, val |-> val]),
                    !.n = @ + 1]

\* region.assign_fixed(|| name, column, offset, || Value::known(val))?
assign_fixed(st, col, offset, val) ==
    IF st.err THEN st
    ELSE IF st.n = st.failAt
    THEN [st EXCEPT !.err = TRUE, !.refused = @ + 1, !.n = @ + 1]
    ELSE [st EXCEPT !.fixed[col] = CellWrite(@, offset, val),
                    !.log = Append(@, [kind |-> "fixed", col |-> col,
                                       offset |-> offset, val |-> val]),
                    !.n = @ + 1]

\* region.assign_advice(|| name, column, offset, || Value::known(val))?
assign_advice(st, col, offset, val) ==
    IF st.err THEN st
    ELSE IF st.n = st.failAt
    THEN [st EXCEPT !.err = TRUE, !.refused = @ + 1, !.n = @ + 1]
    ELSE [st EXCEPT !.advice[col] = CellWrite(@, offset, val),
                    !.log = Append(@, [kind |-> "advice", col |-> col,
                                       offset |-> offset, val |-> val]),
                    !.n = @ + 1]

(***************************************************************************)
(* BinaryOperationTable::load and UnaryOperationTable::load                *)
(***************************************************************************)
\* Body of `for (offset, v) in precomputed.iter().enumerate()`, binary table
BinaryLoadRow(st, offset, v) ==
    LET s1 == assign_fixed(st, "tag", offset, FieldFrom(v[1]))
        s2 == assign_fixed(s1, "lhs", offset, FieldFrom(v[2]))
        s3 == assign_fixed(s2, "rhs", offset, FieldFrom(v[3]))
    IN assign_fixed(s3, "res", offset, FieldFrom(v[4]))

\* The loop over rows lo..hi-1 in increasing order, left once `?` has
\* returned an error (halved to keep the evaluation shallow; the order of
\* the iterations is the loop's).
RECURSIVE BinaryLoadRows(_, _, _, _)
BinaryLoadRows(lo, hi, rows, st) ==
    IF st.err \/ lo >= hi THEN st
    ELSE IF hi = lo + 1 THEN BinaryLoadRow(st, lo, rows[lo + 1])
    ELSE LET mid == (lo + hi) \div 2
         IN BinaryLoadRows(mid, hi, rows, BinaryLoadRows(lo, mid, rows, st))

BinaryOperationTable_load(rows, st) == BinaryLoadRows(0, Len(rows), rows, st)

\* Body of the loop, unary table
UnaryLoadRow(st, offset, v) ==
    LET s1 == assign_fixed(st, "unary_tag", offset, FieldFrom(v[1]))
        s2 == assign_fixed(s1, "unary_operand", offset, FieldFrom(v[2]))
    IN assign_fixed(s2, "unary_res", offset, FieldFrom(v[3]))

RECURSIVE UnaryLoadRows(_, _, _, _)
UnaryLoadRows(lo, hi, rows, st) ==
    IF st.err \/ lo >= hi THEN st
    ELSE IF hi = lo + 1 THEN UnaryLoadRow(st, lo, rows[lo + 1])
    ELSE LET mid == (lo + hi) \div 2
         IN UnaryLoadRows(mid, hi, rows, UnaryLoadRows(lo, mid, rows, st))

UnaryOperationTable_load(rows, st) == UnaryLoadRows(0, Len(rows), rows, st)

(***************************************************************************)
(* SpecLoad: one call of load(rows) on a binary or a unary table           *)
(***************************************************************************)
U8Samples == {0, 255}
SeqsUpTo(S, n) == UNION {[1..m -> S] : m \in 0..n}
BinaryRows == [1..4 -> U8Samples]
UnaryRows == [1..3 -> U8Samples]

LoadInit ==
    /\ \/ pc = "load_binary_call" /\ precomputed \in SeqsUpTo(BinaryRows, MaxRows)
       \/ pc = "load_unary_call" /\ precomputed \in SeqsUpTo(UnaryRows, MaxRows)
    /\ overflow_checks \in BOOLEAN
    /\ GenIdle
    /\ circuit = NoCircuit
    /\ fixed = [c \in FixedColumns |-> EmptyColumn]
    /\ advice = [c \in AdviceColumns |-> EmptyColumn]
    /\ log = <<>>
    /\ refused = 0
    /\ result = "none"
    /\ verify_ok = "none"
    /\ AnnIdle

LoadBinary(failAt) ==
    /\ pc = "load_binary_call"
    /\ \E st \in {BinaryOperationTable_load(precomputed,
                                            CallState(fixed, advice, log, failAt))} :
          /\ fixed' = st.fixed
          /\ log' = st.log
          /\ refused' = st.refused
          /\ result' = IF st.err THEN "Err" ELSE "Ok"
    /\ pc' = "load_binary_returned"
    /\ UNCHANGED <<overflow_checks, genVars, circuit, advice, verify_ok,
                   precomputed, annVars>>

LoadUnary(failAt) ==
    /\ pc = "load_unary_call"
    /\ \E st \in {UnaryOperationTable_load(precomputed,
                                           CallState(fixed, advice, log, failAt))} :
          /\ fixed' = st.fixed
          /\ log' = st.log
          /\ refused' = st.refused
          /\ result' = IF st.err THEN "Err" ELSE "Ok"
    /\ pc' = "load_unary_returned"
    /\ UNCHANGED <<overflow_checks, genVars, circuit, advice, verify_ok,
                   precomputed, annVars>>

LoadNext ==
    \/ \E failAt \in FailChoices : LoadBinary(failAt)
    \/ \E failAt \in FailChoices : LoadUnary(failAt)

SpecLoad == LoadInit /\ [][LoadNext]_vars

(***************************************************************************)
(* BinOpConfig: witness row, lookup relation                               *)
(***************************************************************************)
\* Variant of the row assignment: the tuple is validated against the loaded
\* table and a tuple without a matching row is an error
load_binop_row_Validating(st, tag, lhs, rhs, res) ==
    IF \E i \in 1..Len(st.fixed["tag"]) :
          /\ st.fixed["tag"][i] = tag
          /\ st.fixed["lhs"][i] = lhs
          /\ st.fixed["rhs"][i] = rhs
          /\ st.fixed["res"][i] = res
    THEN assign_advice(assign_advice(assign_advice(assign_advice(
             st, "tag", 0, tag), "lhs", 0, lhs), "rhs", 0, rhs), "res", 0, res)
    ELSE [st EXCEPT !.err = TRUE]

\* BinOpConfig::load_binop_row
load_binop_row(st, tag, lhs, rhs, res) ==
    LET offset == 0
        s1 == assign_advice(st, "tag", offset, tag)
        s2 == assign_advice(s1, "lhs", offset, lhs)
        s3 == assign_advice(s2, "rhs", offset, rhs)
    IN assign_advice(s3, "res", offset, res)

\* Variant of the lookup: the result column is not paired
bin_op_lookup_NoRes ==
    << <<"tag", "tag">>, <<"lhs", "lhs">>, <<"rhs", "rhs">> >>

\* meta.lookup_any("bin_op_lookup", ..): the pairs (advice column queried,
\* fixed table column queried), both at Rotation::cur()
bin_op_lookup ==
    << <<"tag", "tag">>, <<"lhs", "lhs">>, <<"rhs", "rhs">>, <<"res", "res">> >>

\* Rows of the prover: 2^k
NumRows == 2 ^ K

\* A cell never assigned reads as zero
CellOrZero(cells, i) == IF IsAssigned(cells, i) THEN cells[i + 1] ELSE 0

InputTuple(a, i) ==
    [k \in 1..Len(bin_op_lookup) |-> CellOrZero(a[bin_op_lookup[k][1]], i)]
TableTuple(f, i) ==
    [k \in 1..Len(bin_op_lookup) |-> CellOrZero(f[bin_op_lookup[k][2]], i)]
ZeroTuple == [k \in 1..Len(bin_op_lookup) |-> 0]

AssignedRows(cols, names) == UNION {AssignedOffsets(cols[c]) : c \in names}

\* The tuples the lookup's table expressions take over the rows of the prover
TableTuples(f) ==
    LET rows == AssignedRows(f, {bin_op_lookup[k][2] : k \in 1..Len(bin_op_lookup)})
    IN {TableTuple(f, i) : i \in rows}
         \cup (IF Cardinality(rows) < NumRows THEN {ZeroTuple} ELSE {})

\* The tuples the lookup's input expressions take over the rows of the prover
InputTuples(a) ==
    LET rows == AssignedRows(a, {bin_op_lookup[k][1] : k \in 1..Len(bin_op_lookup)})
    IN {InputTuple(a, i) : i \in rows}
         \cup (IF Cardinality(rows) < NumRows THEN {ZeroTuple} ELSE {})

\* MockProver::verify on the one lookup of the circuit: every input tuple
\* is a table tuple
LookupHolds(a, tt) == \A t \in InputTuples(a) : t \in tt
LookupSatisfied(a, f) == LookupHolds(a, TableTuples(f))

(***************************************************************************)
(* Spec: BinOpCircuit::new, one run of synthesize, MockProver::verify      *)
(***************************************************************************)
\* Arguments given to BinOpCircuit::new
WitnessInputs ==
    { <<1, 1, 1, 1>>, <<1, 3, 5, 8>>, <<1, 3, 5, 9>>, <<1, 3, 5, 7>>,
      <<3, 2, 5, 0>>, <<0, 0, 0, 0>>, <<10, 1, 1, 2>> }

Init ==
    /\ pc = "new"
    /\ overflow_checks \in BOOLEAN
    /\ GenIdle
    /\ CsIdle
    /\ AnnIdle

\* BinOpCircuit::new(op, lhs, rhs, res)
New(op, lhs, rhs, res) ==
    /\ pc = "new"
    /\ circuit' = [tag |-> FieldFrom(op), lhs |-> FieldFrom(lhs),
                   rhs |-> FieldFrom(rhs), res |-> FieldFrom(res)]
    /\ pc' = "synthesize"
    /\ UNCHANGED <<overflow_checks, genVars, fixed, advice, log, refused, result,
                   verify_ok, precomputed, annVars>>

\* Variant of the step: the error of the table load is not propagated
LoadBinopTable_IgnoresError(failAt) ==
    /\ pc = "synthesize"
    /\ \E precomputed_binop \in {generate_binop_table(CircuitRange, overflow_checks)} :
          \E st \in {BinaryOperationTable_load(
                         precomputed_binop.all_cases,
                         CallState(fixed, advice, log, failAt))} :
             /\ precomputed' = precomputed_binop.all_cases
             /\ fixed' = st.fixed
             /\ log' = st.log
             /\ refused' = refused + st.refused
             /\ result' = result
             /\ pc' = "table_loaded"
    /\ UNCHANGED <<overflow_checks, genVars, circuit, advice, verify_ok, annVars>>

\* synthesize -> synthesize_sub: config.load_binop_table(layouter)?
LoadBinopTable(failAt) ==
    /\ pc = "synthesize"
    /\ \E precomputed_binop \in {generate_binop_table(CircuitRange, overflow_checks)} :
          IF precomputed_binop.panic
          THEN /\ pc' = "panicked"
               /\ UNCHANGED <<fixed, log, refused, result, precomputed>>
          ELSE \E st \in {BinaryOperationTable_load(
                              precomputed_binop.all_cases,
                              CallState(fixed, advice, log, failAt))} :
                  /\ precomputed' = precomputed_binop.all_cases
                  /\ fixed' = st.fixed
                  /\ log' = st.log
                  /\ refused' = refused + st.refused
                  /\ result' = IF st.err THEN "Err" ELSE result
                  /\ pc' = IF st.err THEN "synthesized" ELSE "table_loaded"
    /\ UNCHANGED <<overflow_checks, genVars, circuit, advice, verify_ok, annVars>>

\* synthesize_sub: layouter.assign_region(|| "bin_op", ..load_binop_row..)?; Ok(())
AssignBinOpRegion(failAt) ==
    /\ pc = "table_loaded"
    /\ \E st \in {load_binop_row(CallState(fixed, advice, log, failAt),
                                 circuit.tag, circuit.lhs, circuit.rhs, circuit.res)} :
          /\ advice' = st.advice
          /\ log' = st.log
          /\ refused' = refused + st.refused
          /\ result' = IF st.err THEN "Err" ELSE "Ok"
    /\ pc' = "synthesized"
    /\ UNCHANGED <<overflow_checks, genVars, circuit, fixed, verify_ok,
                   precomputed, annVars>>

\* MockProver::run(..).unwrap() succeeded; prover.verify()
Verify ==
    /\ pc = "synthesized"
    /\ result = "Ok"
    /\ verify_ok' = LookupSatisfied(advice, fixed)
    /\ pc' = "verified"
    /\ UNCHANGED <<overflow_checks, genVars, circuit, fixed, advice, log, refused,
                   result, precomputed, annVars>>

Next ==
    \/ \E w \in WitnessInputs : New(w[1], w[2], w[3], w[4])
    \/ \E failAt \in FailChoices : LoadBinopTable(failAt)
    \/ \E failAt \in FailChoices : AssignBinOpRegion(failAt)
    \/ Verify

Spec == Init /\ [][Next]_vars

(***************************************************************************)
(* The LookupTable capability and its implementations                      *)
(***************************************************************************)
Column(type, index) == [type |-> type, index |-> index]

\* BinaryOperationTable::construct / RegisterTable::construct as called by
\* BinOpCircuit::configure: the tables' fields in declaration order
BinaryOperationTableImpl ==
    [impl |-> "BinaryOperationTable",
     fields |-> <<Column("Fixed", 0), Column("Fixed", 1), Column("Fixed", 2),
                  Column("Fixed", 3)>>]
RegisterTableImpl ==
    [impl |-> "RegisterTable", fields |-> <<Column("Fixed", 4), Column("Advice", 0)>>]
\* A column array [C; W]
ArrayImpl(cols) == [impl |-> "Array", fields |-> cols]

\* LookupTable::columns
columns(t) == t.fields

\* LookupTable::annotations
annotations(t) ==
    CASE t.impl = "BinaryOperationTable" -> <<"tag", "lhs", "rhs", "value">>
      [] t.impl = "RegisterTable" -> <<"index", "value">>
      [] t.impl = "Array" -> <<>>

\* columns().iter().zip(annotations().iter())
Zip(cols, anns) ==
    [k \in 1..(IF Len(cols) <= Len(anns) THEN Len(cols) ELSE Len(anns)) |->
        <<cols[k], anns[k]>>]

\* .for_each(|(&col, ann)| cs.annotate_lookup_any_column(col, || ann)) from pair k on
RECURSIVE ForEachAnnotate(_, _, _)
ForEachAnnotate(pairs, k, cs) ==
    IF k > Len(pairs) THEN cs
    ELSE ForEachAnnotate(pairs, k + 1, (pairs[k][1] :> pairs[k][2]) @@ cs)

\* LookupTable::annotate_columns
annotate_columns(t, cs) == ForEachAnnotate(Zip(columns(t), annotations(t)), 1, cs)

(***************************************************************************)
(* SpecAnnotate: annotate_columns on one implementation of LookupTable     *)
(***************************************************************************)
ColumnPool == {Column(ty, ix) : ty \in {"Fixed", "Advice"}, ix \in 0..1}

AnnotateInit ==
    /\ pc = "annotate_call"
    /\ overflow_checks \in BOOLEAN
    /\ GenIdle
    /\ CsIdle
    /\ table \in {BinaryOperationTableImpl, RegisterTableImpl}
                   \cup {ArrayImpl(cols) : cols \in SeqsUpTo(ColumnPool, MaxW)}
    /\ cs_annotations = [c \in {} |-> ""]

\* table.annotate_columns(meta)
AnnotateColumns ==
    /\ pc = "annotate_call"
    /\ cs_annotations' = annotate_columns(table, cs_annotations)
    /\ pc' = "annotated"
    /\ UNCHANGED <<overflow_checks, genVars, csVars, table>>

AnnotateNext == AnnotateColumns

SpecAnnotate == AnnotateInit /\ [][AnnotateNext]_vars

(***************************************************************************)
(* The semantics of the binary tags as the specification states them       *)
(***************************************************************************)
Bit(v, i) == (v \div (2 ^ i)) % 2
AndBit(p, q) == IF p = 1 /\ q = 1 THEN 1 ELSE 0
XorBit(p, q) == IF p # q THEN 1 ELSE 0
OrBit(p, q) == IF p = 1 \/ q = 1 THEN 1 ELSE 0

StatedAnd(a, b) ==
    LET w(i) == (2 ^ i) * AndBit(Bit(a, i), Bit(b, i))
    IN w(0) + w(1) + w(2) + w(3) + w(4) + w(5) + w(6) + w(7)
StatedXor(a, b) ==
    LET w(i) == (2 ^ i) * XorBit(Bit(a, i), Bit(b, i))
    IN w(0) + w(1) + w(2) + w(3) + w(4) + w(5) + w(6) + w(7)
StatedOr(a, b) ==
    LET w(i) == (2 ^ i) * OrBit(Bit(a, i), Bit(b, i))
    IN w(0) + w(1) + w(2) + w(3) + w(4) + w(5) + w(6) + w(7)

\* f(tag, x, y) for the tags other than SHL and SHR
StatedF(tag, a, b) ==
    CASE tag = ADD -> a + b
      [] tag = MUL -> a * b
      [] tag = SUB -> IF a >= b THEN a - b ELSE 0
      [] tag = DIV -> IF b # 0 THEN CHOOSE q \in 0..a : q * b <= a /\ a < (q + 1) * b ELSE 0
      [] tag = MOD -> IF b # 0 THEN CHOOSE m \in 0..(b - 1) : \E q \in 0..a : a = q * b + m ELSE 0
      [] tag = LT -> IF a < b THEN 1 ELSE 0
      [] tag = GT -> IF b < a THEN 1 ELSE 0
      [] tag = LE -> IF a > b THEN 0 ELSE 1
      [] tag = GE -> IF a < b THEN 0 ELSE 1
      [] tag = EQ -> IF a = b THEN 1 ELSE 0
      [] tag = AND -> StatedAnd(a, b)
      [] tag = XOR -> StatedXor(a, b)
      [] tag = OR -> StatedOr(a, b)

\* x shifted left / right by y bits (0 shifted by anything is 0)
StatedShl(a, b) == IF a = 0 THEN 0 ELSE a * (2 ^ b)
StatedShr(a, b) == IF a = 0 THEN 0 ELSE a \div (2 ^ b)

Returned == pc = "gen_returned"
Operands == 0..(Pow2(range) - 1)
NonShiftTags == (1..15) \ {SHL, SHR}
\* 1-based position of key (c, a, b) in the sequence generated for `range`
RowIndex(c, a, b) == (a * Pow2(range) + b) * 15 + (c - 1) + 1

(***************************************************************************)
(* C1: for every range n in 0..4, every x, y in [0, 2^n) and every binary  *)
(* tag other than SHL and SHR, generation does not fail and the row with   *)
(* key (tag, x, y) exists and has result f(tag, x, y); operands of every   *)
(* row lie in [0, 2^n).                                                    *)
(***************************************************************************)
C1_RowsMatchSemantics ==
    (range <= CircuitRange) =>
        /\ pc # "gen_panicked"
        /\ Returned =>
            /\ \A i \in DOMAIN all_cases :
                 /\ all_cases[i][2] \in Operands
                 /\ all_cases[i][3] \in Operands
                 /\ all_cases[i][1] \in NonShiftTags =>
                      all_cases[i][4] =
                        StatedF(all_cases[i][1], all_cases[i][2], all_cases[i][3])
            /\ LET rows == {all_cases[i] : i \in DOMAIN all_cases}
               IN \A a \in Operands, b \in Operands, c \in NonShiftTags :
                     <<c, a, b, StatedF(c, a, b)>> \in rows

\* The range-4 table is returned with the saturating SUB row (3, 2, 5, 0)
\* and a division by zero row (4, 7, 0, 0).
C1_Witness ==
    /\ Returned
    /\ range = CircuitRange
    /\ \E i \in DOMAIN all_cases : all_cases[i] = <<SUB, 2, 5, 0>>
    /\ \E i \in DOMAIN all_cases : all_cases[i] = <<DIV, 7, 0, 0>>

(***************************************************************************)
(* C2: for every range and every x, y in [0, 2^n), the SHL row has result  *)
(* x shifted left by y bits and the SHR row has result x shifted right by  *)
(* y bits.                                                                 *)
(***************************************************************************)
C2_ShiftRows ==
    Returned =>
        \A i \in DOMAIN all_cases :
            /\ all_cases[i][1] = SHL =>
                 all_cases[i][4] = StatedShl(all_cases[i][2], all_cases[i][3])
            /\ all_cases[i][1] = SHR =>
                 all_cases[i][4] = StatedShr(all_cases[i][2], all_cases[i][3])

(***************************************************************************)
(* C5: for every range n in 0..4 the returned sequence has exactly         *)
(* (2^n)^2 * 15 rows; the row at index (x * 2^n + y) * 15 + (c - 1) has    *)
(* key (c, x, y); every row's tag is in 1..15 and every row sits at the    *)
(* index of its own key, so every key occurs in exactly one row.           *)
(***************************************************************************)
C5_SizeAndOrder ==
    (Returned /\ range <= CircuitRange) =>
        /\ Len(all_cases) = Pow2(range) * Pow2(range) * 15
        /\ \A a \in Operands, b \in Operands, c \in 1..15 :
             /\ RowIndex(c, a, b) \in DOMAIN all_cases
             /\ all_cases[RowIndex(c, a, b)][1] = c
             /\ all_cases[RowIndex(c, a, b)][2] = a
             /\ all_cases[RowIndex(c, a, b)][3] = b
        /\ \A i \in DOMAIN all_cases :
             /\ all_cases[i][1] \in 1..15
             /\ all_cases[i][2] \in Operands
             /\ all_cases[i][3] \in Operands
             /\ RowIndex(all_cases[i][1], all_cases[i][2], all_cases[i][3]) = i

\* The range-4 table is returned with its 3840 rows
C5_Witness ==
    /\ Returned
    /\ range = CircuitRange
    /\ Len(all_cases) = 3840
    /\ all_cases[3840] = <<EQ, 15, 15, 1>>

(***************************************************************************)
(* C10: for every range n in 0..7 and every x, y in [0, 2^n) the ADD row   *)
(* holds the integer x + y and the MUL row the integer x * y; the          *)
(* computation never overflows the 8-bit cell.                             *)
(***************************************************************************)
C10_AddMulUnreduced ==
    (range <= 7) =>
        /\ pc # "gen_panicked"
        /\ Returned =>
             \A i \in DOMAIN all_cases :
                /\ all_cases[i][1] = ADD =>
                     all_cases[i][4] = all_cases[i][2] + all_cases[i][3]
                /\ all_cases[i][1] = MUL =>
                     all_cases[i][4] = all_cases[i][2] * all_cases[i][3]

(***************************************************************************)
(* Vocabulary of the claims about the circuit                              *)
(***************************************************************************)
BinaryCols == <<"tag", "lhs", "rhs", "res">>
UnaryCols == <<"unary_tag", "unary_operand", "unary_res">>

\* The j-th cell (from 0) that load(rows) is to write on the columns cols
StatedWrite(cols, rows, j) ==
    [kind |-> "fixed", col |-> cols[(j % Len(cols)) + 1], offset |-> j \div Len(cols),
     val |-> rows[(j \div Len(cols)) + 1][(j % Len(cols)) + 1]]

\* The advice columns holding the single witness tuple t at offset 0
WitnessAdvice(t) == [tag |-> <<t[1]>>, lhs |-> <<t[2]>>, rhs |-> <<t[3]>>, res |-> <<t[4]>>]
CircuitTuple == <<circuit.tag, circuit.lhs, circuit.rhs, circuit.res>>
\* t with its result field moved by d in the field
Perturbed(t, d) == <<t[1], t[2], t[3], (t[4] + d) % FieldOrder>>
SynthesisOver == pc \in {"synthesized", "verified"}
NumTableCells == 4 * Len(precomputed)

(***************************************************************************)
(* C3: with the range-4 table loaded, a witness tuple equal to a generated *)
(* row satisfies bin_op_lookup and the same tuple with its result moved by *)
(* plus or minus one does not; (1, 3, 5, 8) satisfies it and (1, 3, 5, 9)  *)
(* does not.  Verification accepts the witness exactly when its tuple is   *)
(* a tuple of the table, wherever the table holds it.                      *)
(***************************************************************************)
C3_LookupSoundness ==
    /\ pc = "table_loaded" =>
         \E tt \in {TableTuples(fixed)} :
            /\ \A i \in DOMAIN precomputed :
                 /\ LookupHolds(WitnessAdvice(precomputed[i]), tt)
                 /\ ~LookupHolds(WitnessAdvice(Perturbed(precomputed[i], 1)), tt)
                 /\ ~LookupHolds(WitnessAdvice(Perturbed(precomputed[i], 0 - 1)), tt)
            /\ LookupHolds(WitnessAdvice(<<1, 3, 5, 8>>), tt)
            /\ ~LookupHolds(WitnessAdvice(<<1, 3, 5, 9>>), tt)
    /\ pc = "verified" =>
         /\ (\E i \in DOMAIN precomputed : CircuitTuple = precomputed[i])
               => verify_ok = TRUE
         /\ (\E i \in DOMAIN precomputed, d \in {1, 0 - 1} :
                CircuitTuple = Perturbed(precomputed[i], d))
               => verify_ok = FALSE

\* (1, 3, 5, 8) witnessed at offset 0 is accepted although row 0 of the
\* table is another tuple
C3_Witness ==
    /\ pc = "verified"
    /\ CircuitTuple = <<1, 3, 5, 8>>
    /\ verify_ok = TRUE
    /\ TableTuple(fixed, 0) # CircuitTuple
    /\ Len(fixed["tag"]) = 3840

(***************************************************************************)
(* C4: the circuit BinOpCircuit::new(1, 1, 1, 1) synthesizes without error *)
(* against the range-4 table and passes verification.                      *)
(***************************************************************************)
C4_TestCircuitVerifies ==
    (CircuitTuple = <<1, 1, 1, 1>> /\ refused = 0) =>
        /\ pc # "panicked"
        /\ SynthesisOver => result = "Ok"
        /\ pc = "verified" => verify_ok = TRUE

(***************************************************************************)
(* C6: load(rows) writes the cells in the order row 0 .. len-1 and, within *)
(* a row, in column order.  If every write succeeds it returns Ok, the     *)
(* columns hold rows[i] at offset i and nothing is written from offset     *)
(* len on.  If a write fails it returns the error at once: the cells       *)
(* written are exactly those before the failing one.  The unary table has  *)
(* the same contract on its three columns.                                 *)
(***************************************************************************)
LoadContract(cols) ==
    /\ result \in {"Ok", "Err"}
    /\ Len(log) <= Len(cols) * Len(precomputed)
    /\ \A j \in 1..Len(log) : log[j] = StatedWrite(cols, precomputed, j - 1)
    /\ result = "Ok" <=> refused = 0
    /\ result = "Ok" =>
         /\ Len(log) = Len(cols) * Len(precomputed)
         /\ \A c \in 1..Len(cols) :
              /\ Len(fixed[cols[c]]) = Len(precomputed)
              /\ \A i \in 1..Len(precomputed) : fixed[cols[c]][i] = precomputed[i][c]
    /\ result = "Err" =>
         /\ refused = 1
         /\ Len(log) < Len(cols) * Len(precomputed)
    \* the columns hold the logged cells and no other
    /\ \A c \in 1..Len(cols) :
         /\ Len(fixed[cols[c]]) = (Len(log) + Len(cols) - c) \div Len(cols)
         /\ \A i \in 1..Len(fixed[cols[c]]) :
              fixed[cols[c]][i] = precomputed[i][c]
    /\ \A c \in FixedColumns :
         (\A k \in 1..Len(cols) : cols[k] # c) => fixed[c] = EmptyColumn

C6_LoadContract ==
    /\ pc = "load_binary_returned" => LoadContract(BinaryCols)
    /\ pc = "load_unary_returned" => LoadContract(UnaryCols)

\* A binary load of two rows refused at the lhs cell of row 1: row 0 and
\* the tag of row 1 are written, nothing after
C6_Witness ==
    /\ pc = "load_binary_returned"
    /\ Len(precomputed) = 2
    /\ result = "Err"
    /\ Len(log) = 5
    /\ Len(fixed["tag"]) = 2
    /\ Len(fixed["lhs"]) = 1

(***************************************************************************)
(* C7: synthesis never reports a semantic mismatch: whatever the witness   *)
(* tuple, synthesize_sub returns Ok when no column write was refused; a    *)
(* tuple with no matching table row shows only as the verification         *)
(* failing.                                                                *)
(***************************************************************************)
C7_MismatchOnlyAtVerification ==
    /\ pc # "panicked"
    /\ (SynthesisOver /\ refused = 0) => result = "Ok"
    /\ pc = "verified" =>
         (verify_ok = FALSE <=> CircuitTuple \notin TableTuples(fixed))

\* (1, 3, 5, 9) has no row in the table: synthesis returned Ok and the
\* verification failed
C7_Witness ==
    /\ pc = "verified"
    /\ CircuitTuple = <<1, 3, 5, 9>>
    /\ result = "Ok"
    /\ refused = 0
    /\ verify_ok = FALSE

(***************************************************************************)
(* C8: in one run of synthesize the table is loaded exactly once (each of  *)
(* its cells is written once, in order), all of it before the witness row; *)
(* exactly one witness row is then assigned, at offset 0; if the table     *)
(* load fails, synthesis returns the error and no witness cell is written. *)
(***************************************************************************)
C8_LoadOnceThenWitness ==
    /\ Len(log) <= NumTableCells + 4
    /\ \A j \in 1..Len(log) :
         IF j <= NumTableCells
         THEN log[j] = StatedWrite(BinaryCols, precomputed, j - 1)
         ELSE /\ log[j].kind = "advice"
              /\ log[j].offset = 0
              /\ log[j].col = BinaryCols[j - NumTableCells]
              /\ log[j].val = CircuitTuple[j - NumTableCells]
    /\ pc = "table_loaded" => Len(log) = NumTableCells /\ Len(precomputed) = 3840
    /\ \A c \in AdviceColumns : Len(advice[c]) <= 1
    /\ (SynthesisOver /\ result = "Ok") =>
         /\ Len(log) = NumTableCells + 4
         /\ Len(precomputed) = 3840
         /\ \A k \in 1..4 : advice[BinaryCols[k]] = <<CircuitTuple[k]>>
    /\ (SynthesisOver /\ Len(log) < NumTableCells) =>
         /\ result = "Err"
         /\ \A c \in AdviceColumns : advice[c] = EmptyColumn

\* The table load was refused at a cell of row 1: synthesis is over with
\* the error and without a witness cell
C8_Witness ==
    /\ pc = "synthesized"
    /\ result = "Err"
    /\ Len(log) = 6
    /\ Len(precomputed) = 3840
    /\ advice["tag"] = EmptyColumn

(***************************************************************************)
(* C9: for every implementation of LookupTable, annotations() has the      *)
(* length of columns(), so annotate_columns attaches an annotation to      *)
(* every column of the table.                                              *)
(***************************************************************************)
C9_AnnotationsCoverColumns ==
    pc = "annotated" =>
        /\ Len(annotations(table)) = Len(columns(table))
        /\ \A k \in 1..Len(columns(table)) : columns(table)[k] \in DOMAIN cs_annotations

====
